---- MODULE Spec2Model ----
(***************************************************************************)
(* wise-ai.ts: the orchestration of one turn (wiseResponse), the trace     *)
(* recorder (trace / evaluate), and the two session drivers (runDialogues, *)
(* runInteract).                                                           *)
(*                                                                         *)
(* Text is a sequence of fragments.  Text that the program inspects (LLM   *)
(* completions, input lines, the dialogues file) is held one character per *)
(* fragment; the literal pieces of the program's template strings are held *)
(* as one fragment each, since the program never parses its own output.    *)
(* The JavaScript value undefined is the text <<"undefined">>, which is    *)
(* what a template string renders it as.                                   *)
(***************************************************************************)
EXTENDS Naturals, Sequences, FiniteSets, TLC

VARIABLES
    command,     \* the command of the command line: "run", "interact" ("none": no process)
    proc,        \* the process: "init", "running", "done", "exited", "crashed"
    flags,       \* the parsed command line (Flags)
    prompts,     \* the cached prompt sections (not loaded before the first getPrompt)
    values,      \* the driver's `values`
    dialogue,    \* runInteract's accumulated `dialogue`
    dialogues,   \* runDialogues' records still to come, current one first
    turns,       \* one record per wiseResponse invocation, in order of start
    traceFile,   \* the lines appended to flags.traceFile
    candidate,   \* value-resolution check: the candidate value
    verdict,     \* value-resolution check: "none", "absent" or "present"
    disk,        \* the prompts file, the dialogues file, and the reads of the prompts file
    lookups      \* prompt-store check: the getPrompt calls made, each with its result

vars == <<command, proc, flags, prompts, values, dialogue, dialogues, turns, traceFile,
          candidate, verdict, disk, lookups>>

----------------------------------------------------------------------------
(* Bounds *)

MaxLines == 2        \* input lines of an interactive session
MaxLen == 5          \* length of a candidate value in the resolution check
MaxFileLines == 3    \* lines of a prompts file in the prompt-store check
MaxLookups == 2      \* getPrompt calls in the prompt-store check
MaxRecordLines == 5  \* lines of a dialogues file in the record-splitting check

----------------------------------------------------------------------------
(* Text helpers *)

Undefined == <<"undefined">>

\* truthiness with undefined taken for a text
TruthyUnlessEmpty(s) == s # <<>>

\* neither undefined nor the empty string
Truthy(s) == s # Undefined /\ s # <<>>

Last(seq) == seq[Len(seq)]

IsPrefix(p, s) == Len(p) <= Len(s) /\ SubSeq(s, 1, Len(p)) = p

\* the least index at which sep occurs in s, or 0
IndexOf(s, sep) ==
    LET hits == {i \in 1..(Len(s) + 1 - Len(sep)) : SubSeq(s, i, i + Len(sep) - 1) = sep}
    IN  IF hits = {} THEN 0 ELSE CHOOSE i \in hits : \A j \in hits : i <= j

Contains(s, sub) == IndexOf(s, sub) # 0

\* String.prototype.split with a string separator
RECURSIVE Split(_, _)
Split(s, sep) ==
    LET i == IndexOf(s, sep)
    IN  IF i = 0 THEN <<s>>
        ELSE <<SubSeq(s, 1, i - 1)>> \o Split(SubSeq(s, i + Len(sep), Len(s)), sep)

\* /^None/
NonePattern == <<"N", "o", "n", "e">>

\* /^None\b/: None, then the end of the text or a character that is no letter
MatchesWordNone(s) ==
    /\ IsPrefix(NonePattern, s)
    /\ Len(s) > 4 => s[5] \in {" ", ".", ",", "\n"}

\* relevantValue.match(/^None/)
MatchesNone(s) == IsPrefix(NonePattern, s)

UpdateDelimiter == <<"\n", "-", "-", "-", "\n">>

\* .split('\n---\n').shift()
PopFirstBlock(completion) == Head(Split(completion, UpdateDelimiter))

\* .split('\n---\n').pop()!
PopLastBlock(completion) == Last(Split(completion, UpdateDelimiter))

----------------------------------------------------------------------------
(* The prompt store: loadFileAndSplitSections and the cache of getPrompt.  *)

LineTerminators == {"\n", "\r"}

\* .split(/\r?\n/)
RECURSIVE SplitLines(_)
SplitLines(s) ==
    LET i == IndexOf(s, <<"\n">>)
    IN  IF i = 0 THEN <<s>>
        ELSE <<SubSeq(s, 1, IF i > 1 /\ s[i - 1] = "\r" THEN i - 2 ELSE i - 1)>>
             \o SplitLines(SubSeq(s, i + 1, Len(s)))

\* the fragments of a text run together into one string
RECURSIVE Concat(_)
Concat(s) == IF s = <<>> THEN "" ELSE Head(s) \o Concat(Tail(s))

\* the characters (.+) takes: up to the first line terminator
RECURSIVE DotPlus(_)
DotPlus(s) ==
    IF s = <<>> \/ Head(s) \in LineTerminators THEN <<>> ELSE <<Head(s)>> \o DotPlus(Tail(s))

\* line.match(/^# (.+)/): match[1], or "" when the line does not match
SectionName(line) ==
    IF Len(line) >= 3 /\ line[1] = "#" /\ line[2] = " "
    THEN Concat(DotPlus(SubSeq(line, 3, Len(line))))
    ELSE ""

\* the loop of loadFileAndSplitSections from line k on
RECURSIVE SplitSections(_, _, _, _)
SplitSections(lines, k, currentSection, sections) ==
    IF k > Len(lines) THEN sections
    ELSE IF SectionName(lines[k]) # ""
         THEN SplitSections(lines, k + 1, SectionName(lines[k]),
                            [n \in DOMAIN sections \cup {SectionName(lines[k])} |->
                                IF n = SectionName(lines[k]) THEN <<>> ELSE sections[n]])
    ELSE IF currentSection # ""
         THEN SplitSections(lines, k + 1, currentSection,
                            [sections EXCEPT ![currentSection] = @ \o lines[k] \o <<"\n">>])
    ELSE SplitSections(lines, k + 1, currentSection, sections)

loadFileAndSplitSections(fileContent) ==
    SplitSections(SplitLines(fileContent), 1, "", [n \in {} |-> <<>>])

\* let prompts: ... | null
NoPrompts == [loaded |-> FALSE, sections |-> [n \in {} |-> <<>>]]

\* the cache check left out: every getPrompt loads the file
MustLoadAlways(cache) == TRUE

\* if (!prompts)
MustLoad(cache) == ~cache.loaded

\* `prompts` after a getPrompt call
PromptsAfterGet(cache, fileContent) ==
    IF MustLoad(cache)
    THEN [loaded |-> TRUE, sections |-> loadFileAndSplitSections(fileContent)]
    ELSE cache

\* the disk after a getPrompt call: one more read when the file is loaded
DiskAfterGet(cache, d) == IF MustLoad(cache) THEN [d EXCEPT !.reads = @ + 1] ELSE d

----------------------------------------------------------------------------
(* Configuration and LLM helpers *)

DEFAULT_MODEL == "gpt-4"

model == IF flags.three THEN "gpt-3.5-turbo" ELSE DEFAULT_MODEL

MaxTokens == 2000

RECURSIVE Join(_, _)
Join(parts, sep) ==
    IF parts = <<>> THEN <<>>
    ELSE IF Len(parts) = 1 THEN parts[1]
    ELSE parts[1] \o sep \o Join(Tail(parts), sep)

\* contents: a sequence of <<key, value>> entries
pack(contents) ==
    Join([i \in 1..Len(contents) |->
            <<"-- - ", contents[i][1], " ---\n\n">> \o contents[i][2] \o <<" \n">>],
         <<"\n">>)

\* prompts[name], once the sections are loaded
getPrompt(name) ==
    IF name \in DOMAIN prompts.sections THEN prompts.sections[name] ELSE Undefined

\* the request prompt(name, userPrompt) hands to llm / createChatCompletion
prompt(name, userPrompt) ==
    [name |-> name, model |-> model, systemPrompt |-> getPrompt(name),
     userPrompt |-> userPrompt, max_tokens |-> MaxTokens]

NoRequest ==
    [name |-> "", model |-> "", systemPrompt |-> <<>>, userPrompt |-> <<>>,
     max_tokens |-> 0]

getRelevantValue(vals, dlg, situation) ==
    prompt("relevantValue",
           pack(<< <<"ATTENTIONAL POLICIES", vals>>,
                   <<"CHALLENGING CHAT", dlg>>,
                   <<"WAYS IT COULD GO", situation>> >>))

getUpdatedValues(vals, dlg, situation) ==
    prompt("updateValues",
           pack(<< <<"ATTENTIONAL POLICIES", vals>>,
                   <<"CHALLENGING CHAT", dlg>>,
                   <<"WAYS IT COULD GO", situation>> >>))

getResponse(value, dlg) ==
    prompt("response", pack(<< <<"ATTENTIONAL POLICY", value>>, <<"DIALOGUE", dlg>> >>))

----------------------------------------------------------------------------
(* The trace recorder: trace(eventType, runType, dialogue, completion,     *)
(* parameters) and evaluate(trace).  A site is one of the five trace calls *)
(* of wiseResponse.                                                        *)

Sites == {"situation", "upgrade", "response", "baseline", "clever"}

eventType(site) ==
    CASE site = "situation" -> "situation"
      [] site = "upgrade" -> "upgrade"
      [] OTHER -> "response"

\* every trace call passing 'wise'
runTypeWise(site) == "wise"

runType(site) ==
    CASE site = "baseline" -> "baseline"
      [] site = "clever" -> "clever"
      [] OTHER -> "wise"

\* the completion argument of the trace call at site
completionOf(site, t) ==
    CASE site = "situation" -> t.situation
      [] site = "upgrade" -> t.values
      [] site = "response" -> t.response
      [] site = "baseline" -> t.baseResponse
      [] OTHER -> t.cleverResponse

\* the parameters argument of the trace call at site
parametersOf(site, t) ==
    CASE site = "situation" -> [present |-> FALSE, entries |-> <<>>]
      [] site = "upgrade" ->
            [present |-> TRUE,
             entries |-> << <<"previousValues", t.previousValues>>,
                            <<"situation", t.situation>> >>]
      [] OTHER ->
            [present |-> TRUE, entries |-> << <<"considerations", t.situation>> >>]

\* parameters[key]
Property(parameters, key) ==
    LET hits == {i \in 1..Len(parameters.entries) : parameters.entries[i][1] = key}
    IN  IF hits = {} THEN Undefined ELSE parameters.entries[CHOOSE i \in hits : TRUE][2]

evalPromptName(site) ==
    CASE eventType(site) = "situation" -> "eval-situation"
      [] eventType(site) = "upgrade" -> "eval-upgrade"
      [] OTHER -> "eval-response"

\* the request evaluate() issues for the trace call at site
evaluate(site, t) ==
    prompt(evalPromptName(site),
           pack(<< <<"COMPLETED DIALOGUE", t.dialogue \o <<"\n">> \o completionOf(site, t)>>,
                   <<"FEELINGS", Property(parametersOf(site, t), "considerations")>> >>))

\* the object trace() serialises; turn is the wiseResponse invocation that wrote it
TraceObj(site, t, score) ==
    [turn |-> t.id, eventType |-> eventType(site), runType |-> runType(site),
     model |-> model, dialogue |-> t.dialogue, completion |-> completionOf(site, t),
     parameters |-> parametersOf(site, t), score |-> score]

appendFileSync(file, obj) == Append(file, obj)

----------------------------------------------------------------------------
(* wiseResponse.  An invocation runs from one LLM completion to the next   *)
(* LLM request without interruption: every other await resolves in the     *)
(* microtask queue.  pc names the LLM call the invocation is suspended on. *)

NewTurn(id, dlg, vals) ==
    [id |-> id,
     input |-> dlg,        \* the line or record the driver read for this invocation
     earlier |-> {},       \* the invocations that had returned when this one began
     dialogue |-> dlg, valuesIn |-> vals, values |-> vals,
     previousValues |-> Undefined, updateCompletion |-> Undefined,
     situation |-> Undefined, relevantValue |-> Undefined, response |-> Undefined,
     baseResponse |-> Undefined, cleverResponse |-> Undefined,
     pc |-> "start", site |-> "none", req |-> NoRequest,
     sent |-> <<>>,        \* the LLM requests issued so far
     received |-> <<>>,    \* received[i]: the completion of sent[i]
     error |-> "none",
     result |-> [response |-> Undefined, relevantValue |-> Undefined,
                 situation |-> Undefined, values |-> Undefined]]

\* suspend on createChatCompletion
Await(t, pc, req) ==
    [t EXCEPT !.pc = pc, !.site = "none", !.req = req, !.sent = Append(@, req)]

AwaitEval(t, site) ==
    [t EXCEPT !.pc = "eval", !.site = site, !.req = evaluate(site, t),
              !.sent = Append(@, evaluate(site, t))]

Throw(t, error) == [t EXCEPT !.pc = "failed", !.site = "none", !.req = NoRequest, !.error = error]

\* the baseline completion returned in place of the response
ReturnBaseline(t) ==
    [t EXCEPT !.pc = "returned", !.site = "none", !.req = NoRequest,
              !.result = [response |-> IF t.baseResponse # Undefined THEN t.baseResponse
                                                                     ELSE t.response,
                          relevantValue |-> t.relevantValue,
                          situation |-> t.situation, values |-> t.values]]

\* return { response, relevantValue, situation, values }
Return(t) ==
    [t EXCEPT !.pc = "returned", !.site = "none", !.req = NoRequest,
              !.result = [response |-> t.response, relevantValue |-> t.relevantValue,
                          situation |-> t.situation, values |-> t.values]]

Out(t, file) == [turn |-> t, traceFile |-> file]

\* the statement that follows the trace call at site
AfterTrace(site) ==
    CASE site = "situation" -> "lookup"
      [] site = "upgrade" -> "lookupAgain"
      [] site = "response" -> "comparative"
      [] site = "baseline" -> "clever"
      [] OTHER -> "return"

\* the condition of the update inverted
NeedsUpdateInverted(relevantValue) == ~MatchesNone(relevantValue)

\* if (relevantValue.match(/^None/)) { ...update... }
NeedsUpdate(relevantValue) == MatchesNone(relevantValue)

\* the check after the update left out
ValueMissingNever(relevantValue) == FALSE

\* if (relevantValue.match(/^None/)) throw ...
ValueMissing(relevantValue) == MatchesNone(relevantValue)

RECURSIVE Continue(_, _, _)
Continue(point, t, file) ==
    CASE point = "lookup" ->
            Out(Await(t, "relevantValue", getRelevantValue(t.values, t.dialogue, t.situation)), file)
      [] point = "lookupAgain" ->
            Out(Await(t, "relevantValueAgain", getRelevantValue(t.values, t.dialogue, t.situation)), file)
      [] point = "check" ->
            IF ValueMissing(t.relevantValue)
            THEN Out(Throw(t, "Could not find relevant value"), file)
            ELSE Out(Await(t, "response", getResponse(t.relevantValue, t.dialogue)), file)
      [] point = "comparative" ->
            IF flags.comparative
            THEN Out(Await(t, "baseResponse", prompt("baseResponse", t.dialogue)), file)
            ELSE Continue("return", t, file)
      [] point = "clever" ->
            Out(Await(t, "cleverResponse", prompt("cleverResponse", t.dialogue)), file)
      [] OTHER -> Out(Return(t), file)

\* trace(...) up to its evaluation request, if it makes one
trace(site, t, file) ==
    IF ~Truthy(flags.traceFile) THEN Continue(AfterTrace(site), t, file)
    ELSE IF ~flags.runEvals
         THEN Continue(AfterTrace(site), t, appendFileSync(file, TraceObj(site, t, Undefined)))
    ELSE IF ~Truthy(getPrompt(evalPromptName(site)))
         THEN Continue(AfterTrace(site), t, appendFileSync(file, TraceObj(site, t, Undefined)))
    ELSE IF ~parametersOf(site, t).present
         THEN Out(Throw(t, "TypeError"), file)     \* destructuring of undefined
    ELSE Out(AwaitEval(t, site), file)

\* wiseResponse(dialogue, values) up to its first LLM request
wiseResponse(id, dlg, vals) ==
    Await(NewTurn(id, dlg, vals), "situation", prompt("situation", dlg))

\* the invocation resumes with the completion of the call it is suspended on
Resume(suspended, completion, file) ==
    LET t == [suspended EXCEPT !.received = Append(@, completion)] IN
    CASE t.pc = "situation" ->
            trace("situation", [t EXCEPT !.situation = completion], file)
      [] t.pc = "relevantValue" ->
            LET u == [t EXCEPT !.relevantValue = completion]
            IN  IF NeedsUpdate(completion)
                THEN Out(Await(u, "updateValues",
                               getUpdatedValues(u.values, u.dialogue, u.situation)), file)
                ELSE Continue("check", u, file)
      [] t.pc = "updateValues" ->
            trace("upgrade",
                  [t EXCEPT !.previousValues = t.values,
                            !.updateCompletion = completion,
                            !.values = PopLastBlock(completion)], file)
      [] t.pc = "relevantValueAgain" ->
            Continue("check", [t EXCEPT !.relevantValue = completion], file)
      [] t.pc = "response" ->
            trace("response", [t EXCEPT !.response = completion], file)
      [] t.pc = "baseResponse" ->
            trace("baseline", [t EXCEPT !.baseResponse = completion], file)
      [] t.pc = "cleverResponse" ->
            trace("clever", [t EXCEPT !.cleverResponse = completion], file)
      [] OTHER ->   \* "eval": obj.score = await evaluate(...), then the append
            Continue(AfterTrace(t.site), t,
                     appendFileSync(file, TraceObj(t.site, t, completion)))

\* the rejection caught and dropped: the invocation waits on
RejectSwallowed(t) == [t EXCEPT !.error = "APIError"]

\* createChatCompletion rejects: the exception leaves wiseResponse
Reject(t) == Throw(t, "APIError")

Pending(t) == t.pc \notin {"start", "returned", "failed"}

----------------------------------------------------------------------------
(* The environment: the command line, the files, the LLM.                  *)

FlagsSet ==
    [three : BOOLEAN, runEvals : BOOLEAN, comparative : BOOLEAN,
     traceFile : {<<>>, <<"t">>}]

StartingValues == <<"K", "\n">>

RequiredSections == {"startingValues", "situation", "relevantValue", "updateValues", "response"}
ComparativeSections == {"baseResponse", "cleverResponse"}
EvalSections == {"eval-situation", "eval-upgrade", "eval-response"}

\* the sections of a prompts file: the required ones, the comparative ones and
\* any of the evaluation ones
Sections(evals) ==
    [name \in RequiredSections \cup ComparativeSections \cup evals |->
        IF name = "startingValues" THEN StartingValues ELSE <<name, "\n">>]

\* the order of the sections in a prompts file
SectionOrder ==
    <<"startingValues", "situation", "relevantValue", "updateValues", "response",
      "baseResponse", "cleverResponse", "eval-situation", "eval-upgrade", "eval-response">>

\* the text of a prompts file that holds the sections `names`, each a marker line
\* and one line of body; the file does not end with a line terminator
PromptsFileText(names) ==
    LET present == SelectSeq(SectionOrder, LAMBDA n : n \in names)
    IN  Join([k \in 1..Len(present) |->
                <<"#", " ", present[k], "\n">>
                \o (IF present[k] = "startingValues" THEN <<"K">> ELSE <<present[k]>>)],
             <<"\n">>)

\* the prompts files of the batch run: complete ones with any of the evaluation
\* sections, and ones that lack one section of the mandatory path
PromptsFiles ==
    {PromptsFileText(RequiredSections \cup ComparativeSections \cup evals) :
        evals \in SUBSET EvalSections}
    \cup {PromptsFileText((RequiredSections \cup ComparativeSections) \ {missing}) :
            missing \in {"situation", "relevantValue", "updateValues", "response"}}

\* the interactive session is run without and with the evaluation sections
InteractPromptsFiles ==
    {PromptsFileText(RequiredSections \cup ComparativeSections),
     PromptsFileText(RequiredSections \cup ComparativeSections \cup EvalSections)}

DialoguesFiles ==
    { <<"a">>,
      <<"a", "\n", "-", "-", "-", "\n", "H", "U", "M", "A", "N", ":", " ", "b">>,
      <<"a", "\r", "\n", "-", "-", "-", "\r", "\n", "b">> }

InputLines == { <<"a">>, <<"b">>, <<" ", "e", "x", "i", "t">> }

\* what the LLM may answer to a request: a wide choice for the batch run, whose
\* turns follow one another, a narrow one for the interactive session, whose
\* turns interleave
\* the batch runs over DialoguesFiles see every kind of completion, the other
\* runs one completion for each way a turn can go
WideCompletions == command = "run" /\ disk.dialoguesFile \in DialoguesFiles

Completions(name) ==
    CASE name = "situation" -> { <<"s">> }
      [] name = "relevantValue" /\ WideCompletions ->
            { <<"N", "o", "n", "e">>, <<"N", "o", "n", "e", "t">>, <<"K">> }
      [] name = "relevantValue" ->
            { <<"N", "o", "n", "e">>, <<"K">> }
      [] name = "updateValues" /\ WideCompletions ->
            { <<"H">>,
              <<"r", "\n", "-", "-", "-", "\n", "H">>,
              <<"r", "\n", "-", "-", "-", "\n">> }
      [] name = "updateValues" ->
            { <<"r", "\n", "-", "-", "-", "\n", "H">> }
      [] name = "response" /\ WideCompletions -> { <<"R">>, <<"Q">> }
      [] name = "response" -> { <<"R">> }
      [] OTHER -> { <<"c">> }

----------------------------------------------------------------------------
(* runDialogues *)

At(s, i) == IF i \in 1..Len(s) THEN s[i] ELSE ""

\* the length of the match of /\r?\n---\r?\n/ that starts at i, or 0
RecordSeparatorAt(s, i) ==
    LET a == IF At(s, i) = "\r" THEN 1 ELSE 0
        b == IF At(s, i + a + 4) = "\r" THEN 1 ELSE 0
    IN  IF /\ At(s, i + a) = "\n"
           /\ At(s, i + a + 1) = "-" /\ At(s, i + a + 2) = "-" /\ At(s, i + a + 3) = "-"
           /\ At(s, i + a + 4 + b) = "\n"
        THEN a + 5 + b ELSE 0

\* the split on '\n---\n' alone, as for the value-set update
SplitOnLineFeeds(s) == Split(s, UpdateDelimiter)

\* .split(/\r?\n---\r?\n/)
RECURSIVE SplitRecords(_)
SplitRecords(s) ==
    LET hits == {i \in 1..Len(s) : RecordSeparatorAt(s, i) > 0}
    IN  IF hits = {} THEN <<s>>
        ELSE LET i == CHOOSE i \in hits : \A j \in hits : i <= j
             IN  <<SubSeq(s, 1, i - 1)>>
                 \o SplitRecords(SubSeq(s, i + RecordSeparatorAt(s, i), Len(s)))

\* if (!dialogue.match(/HUMAN/)) dialogue = `HUMAN: ${dialogue}\nBOT:`
WrapRecord(record) ==
    IF Contains(record, <<"H", "U", "M", "A", "N">>) THEN record
    ELSE <<"HUMAN: ">> \o record \o <<"\nBOT:">>

\* the value-set runDialogues passes to the turn of a record
BatchValues == values

\* the turn of the first record, once the files are read
FirstTurn ==
    [wiseResponse(1, WrapRecord(Head(dialogues)), BatchValues) EXCEPT !.input = Head(dialogues)]

\* runDialogues up to the first LLM request of the first record
RunDialogues ==
    /\ command = "run" /\ proc = "init"
    /\ dialogues' = SplitRecords(disk.dialoguesFile)
    /\ prompts' = PromptsAfterGet(prompts, disk.promptsFile)
    /\ disk' = DiskAfterGet(prompts, disk)
    /\ values' = getPrompt("startingValues")'
    /\ lookups' = lookups
    /\ proc' = "running"
    /\ UNCHANGED <<command, flags, dialogue, traceFile, candidate, verdict>>
    /\ turns' = <<FirstTurn>>'

\* the loop with every await wiseResponse caught: a failed turn is passed over
BatchStepPastFailure(out) ==
    /\ traceFile' = out.traceFile
    /\ CASE out.turn.pc \in {"failed", "returned"} /\ Len(dialogues) > 1 ->
              /\ turns' = Append([turns EXCEPT ![Len(turns)] = out.turn],
                                 [wiseResponse(Len(turns) + 1, WrapRecord(dialogues[2]),
                                               BatchValues)
                                    EXCEPT !.input = dialogues[2],
                                           !.earlier = DOMAIN turns])
              /\ dialogues' = Tail(dialogues)
              /\ UNCHANGED proc
         [] out.turn.pc \in {"failed", "returned"} /\ Len(dialogues) <= 1 ->
              /\ turns' = [turns EXCEPT ![Len(turns)] = out.turn]
              /\ dialogues' = Tail(dialogues)
              /\ proc' = "done"
         [] OTHER ->
              /\ turns' = [turns EXCEPT ![Len(turns)] = out.turn]
              /\ UNCHANGED <<dialogues, proc>>
    /\ UNCHANGED <<command, flags, prompts, values, dialogue, candidate, verdict, disk, lookups>>

\* the loop handing the value-set a turn returned to the turn of the next record
BatchStepThreaded(out) ==
    /\ traceFile' = out.traceFile
    /\ CASE out.turn.pc = "failed" ->
              /\ turns' = [turns EXCEPT ![Len(turns)] = out.turn]
              /\ proc' = "crashed"
              /\ UNCHANGED dialogues
         [] out.turn.pc = "returned" /\ Len(dialogues) > 1 ->
              /\ turns' = Append([turns EXCEPT ![Len(turns)] = out.turn],
                                 [wiseResponse(Len(turns) + 1, WrapRecord(dialogues[2]),
                                               out.turn.result.values)
                                    EXCEPT !.input = dialogues[2],
                                           !.earlier = DOMAIN turns])
              /\ dialogues' = Tail(dialogues)
              /\ UNCHANGED proc
         [] out.turn.pc = "returned" /\ Len(dialogues) <= 1 ->
              /\ turns' = [turns EXCEPT ![Len(turns)] = out.turn]
              /\ dialogues' = Tail(dialogues)
              /\ proc' = "done"
         [] OTHER ->
              /\ turns' = [turns EXCEPT ![Len(turns)] = out.turn]
              /\ UNCHANGED <<dialogues, proc>>
    /\ UNCHANGED <<command, flags, prompts, values, dialogue, candidate, verdict, disk, lookups>>

\* the loop of runDialogues after the current record's turn moved to t
BatchStep(out) ==
    /\ traceFile' = out.traceFile
    /\ CASE out.turn.pc = "failed" ->
              /\ turns' = [turns EXCEPT ![Len(turns)] = out.turn]
              /\ proc' = "crashed"
              /\ UNCHANGED dialogues
         [] out.turn.pc = "returned" /\ Len(dialogues) > 1 ->
              /\ turns' = Append([turns EXCEPT ![Len(turns)] = out.turn],
                                 [wiseResponse(Len(turns) + 1, WrapRecord(dialogues[2]),
                                               BatchValues)
                                    EXCEPT !.input = dialogues[2],
                                           !.earlier = DOMAIN turns])
              /\ dialogues' = Tail(dialogues)
              /\ UNCHANGED proc
         [] out.turn.pc = "returned" /\ Len(dialogues) <= 1 ->
              /\ turns' = [turns EXCEPT ![Len(turns)] = out.turn]
              /\ dialogues' = Tail(dialogues)
              /\ proc' = "done"
         [] OTHER ->
              /\ turns' = [turns EXCEPT ![Len(turns)] = out.turn]
              /\ UNCHANGED <<dialogues, proc>>
    /\ UNCHANGED <<command, flags, prompts, values, dialogue, candidate, verdict, disk, lookups>>

\* the LLM call of the current record's turn completes
BatchLlmReturns ==
    /\ command = "run" /\ proc = "running"
    /\ Pending(Last(turns))
    /\ \E completion \in Completions(Last(turns).req.name) :
          BatchStep(Resume(Last(turns), completion, traceFile))

\* the LLM call of the current record's turn fails
BatchLlmFails ==
    /\ command = "run" /\ proc = "running"
    /\ Pending(Last(turns))
    /\ BatchStep(Out(Reject(Last(turns)), traceFile))

Init ==
    /\ command = "run"
    /\ proc = "init"
    /\ flags \in FlagsSet
    /\ prompts = NoPrompts
    /\ values = Undefined
    /\ dialogue = <<>>
    /\ dialogues = <<>>
    /\ turns = <<>>
    /\ traceFile = <<>>
    /\ candidate = <<>>
    /\ verdict = "none"
    /\ disk \in [promptsFile : PromptsFiles, dialoguesFile : DialoguesFiles, reads : {0}]
    /\ lookups = <<>>

Next == RunDialogues \/ BatchLlmReturns \/ BatchLlmFails

Spec == Init /\ [][Next]_vars

----------------------------------------------------------------------------
(* The batch run over every dialogues file of at most MaxRecordLines lines, *)
(* with a complete prompts file and no flag set.                            *)

RecordLines == { <<"a">>, <<"-", "-", "-">>, <<"H", "U", "M", "A", "N">>, <<>> }

\* the files of n lines, terminated by line feeds or by carriage return, line feed
RecordFiles ==
    UNION {{Join(lines, terminator) :
                lines \in [1..n -> RecordLines], terminator \in { <<"\n">>, <<"\r", "\n">> }} :
           n \in 1..MaxRecordLines}

InitRecords ==
    /\ command = "run"
    /\ proc = "init"
    /\ flags = [three |-> FALSE, runEvals |-> FALSE, comparative |-> FALSE, traceFile |-> <<>>]
    /\ prompts = NoPrompts
    /\ values = Undefined
    /\ dialogue = <<>>
    /\ dialogues = <<>>
    /\ turns = <<>>
    /\ traceFile = <<>>
    /\ candidate = <<>>
    /\ verdict = "none"
    /\ disk \in [promptsFile : {PromptsFileText(RequiredSections \cup ComparativeSections)},
                  dialoguesFile : RecordFiles, reads : {0}]
    /\ lookups = <<>>

SpecRecords == InitRecords /\ [][Next]_vars

----------------------------------------------------------------------------
(* runInteract *)

Whitespace == {" ", "\t", "\n", "\r"}

\* String.prototype.trim
RECURSIVE trim(_)
trim(s) ==
    IF s = <<>> THEN s
    ELSE IF Head(s) \in Whitespace THEN trim(Tail(s))
    ELSE IF Last(s) \in Whitespace THEN trim(SubSeq(s, 1, Len(s) - 1))
    ELSE s

\* the dialogue argument of the line handler's wiseResponse call
LineDialogue(line, accumulated) == line

\* the value-set argument of the line handler's wiseResponse call
LineValues == values

\* runInteract up to rl.prompt()
RunInteract ==
    /\ command = "interact" /\ proc = "init"
    /\ prompts' = PromptsAfterGet(prompts, disk.promptsFile)
    /\ disk' = DiskAfterGet(prompts, disk)
    /\ values' = getPrompt("startingValues")'
    /\ dialogue' = <<>>
    /\ proc' = "running"
    /\ UNCHANGED <<command, flags, dialogues, turns, traceFile, candidate, verdict, lookups>>

\* rl.on('line'): the handler up to the first LLM request of its wiseResponse call
Line ==
    /\ command = "interact" /\ proc = "running"
    /\ Len(turns) < MaxLines
    /\ \E line \in InputLines :
          IF trim(line) = <<"e", "x", "i", "t">>
          THEN /\ proc' = "exited"          \* rl.close(), then process.exit(0)
               /\ UNCHANGED <<dialogue, turns>>
          ELSE /\ dialogue' = (IF dialogue # <<>> THEN dialogue \o <<"\n">> ELSE dialogue)
                                 \o <<"\nHUMAN: ">> \o line \o <<"\nBOT:">>
               /\ turns' = Append(turns,
                                  [wiseResponse(Len(turns) + 1,
                                                LineDialogue(line, dialogue'), LineValues)
                                     EXCEPT !.input = line,
                                            !.earlier = {j \in DOMAIN turns :
                                                           turns[j].pc = "returned"}])
               /\ UNCHANGED proc
    /\ UNCHANGED <<command, flags, prompts, values, dialogues, traceFile, candidate, verdict, disk, lookups>>

\* rl.on('close'): standard input ends
Close ==
    /\ command = "interact" /\ proc = "running"
    /\ proc' = "exited"
    /\ UNCHANGED <<command, flags, prompts, values, dialogue, dialogues, turns, traceFile,
                   candidate, verdict, disk, lookups>>

\* the rest of the line handler of invocation i, after its wiseResponse call moved
\* to out.turn; a rejected handler is an unhandled rejection, which ends the
\* process or only warns, as the runtime is set
HandlerStep(i, out) ==
    /\ traceFile' = out.traceFile
    /\ turns' = [turns EXCEPT ![i] = out.turn]
    /\ CASE out.turn.pc = "returned" ->
              /\ values' = out.turn.result.values
              /\ dialogue' = dialogue \o <<"\nBOT: ">> \o out.turn.result.response
              /\ UNCHANGED proc
         [] out.turn.pc = "failed" ->
              /\ \E fatal \in BOOLEAN : proc' = IF fatal THEN "crashed" ELSE proc
              /\ UNCHANGED <<values, dialogue>>
         [] OTHER -> UNCHANGED <<values, dialogue, proc>>
    /\ UNCHANGED <<command, flags, prompts, dialogues, candidate, verdict, disk, lookups>>

\* the pending LLM call of some invocation completes
InteractLlmReturns ==
    /\ command = "interact" /\ proc = "running"
    /\ \E i \in DOMAIN turns :
          /\ Pending(turns[i])
          /\ \E completion \in Completions(turns[i].req.name) :
                HandlerStep(i, Resume(turns[i], completion, traceFile))

\* the pending LLM call of some invocation fails
InteractLlmFails ==
    /\ command = "interact" /\ proc = "running"
    /\ \E i \in DOMAIN turns :
          /\ Pending(turns[i])
          /\ HandlerStep(i, Out(Reject(turns[i]), traceFile))

InitInteract ==
    /\ command = "interact"
    /\ proc = "init"
    /\ flags \in FlagsSet
    /\ prompts = NoPrompts
    /\ values = Undefined
    /\ dialogue = <<>>
    /\ dialogues = <<>>
    /\ turns = <<>>
    /\ traceFile = <<>>
    /\ candidate = <<>>
    /\ verdict = "none"
    /\ disk \in [promptsFile : InteractPromptsFiles, dialoguesFile : {<<>>}, reads : {0}]
    /\ lookups = <<>>

NextInteract == RunInteract \/ Line \/ Close \/ InteractLlmReturns \/ InteractLlmFails

SpecInteract == InitInteract /\ [][NextInteract]_vars

----------------------------------------------------------------------------
(* Value resolution on its own: the test both `if`s of wiseResponse make   *)
(* of a candidate value, over every candidate of at most MaxLen characters. *)

ResolveAlphabet == {"N", "o", "n", "e", "t", " ", "."}

Candidates == UNION {[1..n -> ResolveAlphabet] : n \in 0..MaxLen}

Resolve ==
    /\ command = "none" /\ verdict = "none"
    /\ verdict' = IF MatchesNone(candidate) THEN "absent" ELSE "present"
    /\ UNCHANGED <<command, proc, flags, prompts, values, dialogue, dialogues, turns,
                   traceFile, candidate, disk, lookups>>

InitResolve ==
    /\ command = "none"
    /\ proc = "init"
    /\ flags = [three |-> FALSE, runEvals |-> FALSE, comparative |-> FALSE, traceFile |-> <<>>]
    /\ prompts = NoPrompts
    /\ values = Undefined
    /\ dialogue = <<>>
    /\ dialogues = <<>>
    /\ turns = <<>>
    /\ traceFile = <<>>
    /\ candidate \in Candidates
    /\ verdict = "none"
    /\ disk = [promptsFile |-> <<>>, dialoguesFile |-> <<>>, reads |-> 0]
    /\ lookups = <<>>

NextResolve == Resolve

SpecResolve == InitResolve /\ [][NextResolve]_vars

----------------------------------------------------------------------------
(* The prompt store on its own: getPrompt called up to MaxLookups times     *)
(* against every prompts file of at most MaxFileLines lines.                *)

LoadLines ==
    { <<"#", " ", "a">>, <<"#", " ", "b">>, <<"#", " ", "a", "\r">>,
      <<"x">>, <<"x", "\r">>, <<>>, <<"#", "a">>, <<"#", " ">> }

LoadFiles == UNION {{Join(lines, <<"\n">>) : lines \in [1..n -> LoadLines]} : n \in 1..MaxFileLines}

LookupNames == {"a", "b", "c"}

\* await getPrompt(name)
GetPrompt ==
    /\ command = "none" /\ Len(lookups) < MaxLookups
    /\ \E name \in LookupNames :
          /\ prompts' = PromptsAfterGet(prompts, disk.promptsFile)
          /\ disk' = DiskAfterGet(prompts, disk)
          /\ lookups' = Append(lookups, [name |-> name, result |-> getPrompt(name)'])
    /\ UNCHANGED <<command, proc, flags, values, dialogue, dialogues, turns, traceFile,
                   candidate, verdict>>

InitLoad ==
    /\ command = "none"
    /\ proc = "init"
    /\ flags = [three |-> FALSE, runEvals |-> FALSE, comparative |-> FALSE, traceFile |-> <<>>]
    /\ prompts = NoPrompts
    /\ values = Undefined
    /\ dialogue = <<>>
    /\ dialogues = <<>>
    /\ turns = <<>>
    /\ traceFile = <<>>
    /\ candidate = <<>>
    /\ verdict = "none"
    /\ disk \in [promptsFile : LoadFiles, dialoguesFile : {<<>>}, reads : {0}]
    /\ lookups = <<>>

NextLoad == GetPrompt

SpecLoad == InitLoad /\ [][NextLoad]_vars

----------------------------------------------------------------------------
(* What the claims speak of *)

\* how many requests of the template `name` invocation t has issued
Invocations(t, name) == Cardinality({k \in 1..Len(t.sent) : t.sent[k].name = name})

\* the requests of the template `name` invocation t has issued, in order
RECURSIVE RequestsFrom(_, _, _)
RequestsFrom(t, name, k) ==
    IF k > Len(t.sent) THEN <<>>
    ELSE (IF t.sent[k].name = name THEN <<t.sent[k]>> ELSE <<>>) \o RequestsFrom(t, name, k + 1)
Requests(t, name) == RequestsFrom(t, name, 1)

\* the completions invocation t has received from the template `name`, in order
RECURSIVE AnswersFrom(_, _, _)
AnswersFrom(t, name, k) ==
    IF k > Len(t.received) THEN <<>>
    ELSE (IF t.sent[k].name = name THEN <<t.received[k]>> ELSE <<>>) \o AnswersFrom(t, name, k + 1)
Answers(t, name) == AnswersFrom(t, name, 1)

\* the trace records invocation id has written, by event type and run type
Written(id, event, run) ==
    {k \in DOMAIN traceFile :
        /\ traceFile[k].turn = id
        /\ traceFile[k].eventType = event
        /\ traceFile[k].runType = run}

WrittenBy(id) == {k \in DOMAIN traceFile : traceFile[k].turn = id}

\* the text starts with the four characters N, o, n, e
StartsWithNone(s) ==
    Len(s) >= 4 /\ s[1] = "N" /\ s[2] = "o" /\ s[3] = "n" /\ s[4] = "e"

\* v is a last '\n---\n'-delimited block of c: all of c when c holds no delimiter,
\* else what follows a delimiter of c and holds none itself
IsLastBlockOf(v, c) ==
    LET d == <<"\n", "-", "-", "-", "\n">>
        Holds(x) == \E k \in 1..Len(x) : k + 4 <= Len(x) /\ SubSeq(x, k, k + 4) = d
    IN  \/ ~Holds(c) /\ v = c
        \/ /\ ~Holds(v)
           /\ \E k \in 1..Len(c) :
                 /\ k + 4 <= Len(c)
                 /\ SubSeq(c, k, k + 4) = d
                 /\ v = SubSeq(c, k + 5, Len(c))

Suffixes(c) == {SubSeq(c, k, Len(c)) : k \in 1..(Len(c) + 1)}

\* the LLM calls of the mandatory path of a turn
MandatoryCalls == {"situation", "relevantValue", "updateValues", "response"}

----------------------------------------------------------------------------
(* C1 *)

NoneTwice(t) ==
    LET a == Answers(t, "relevantValue")
    IN  Len(a) = 2 /\ StartsWithNone(a[1]) /\ StartsWithNone(a[2])

\* C1: when the relevantValue completion starts with None on the first lookup and
\* on the lookup after the update, the turn fails with 'Could not find relevant
\* value' after exactly one updateValues and exactly two relevantValue
\* invocations, the response template is never invoked and the turn writes no
\* response trace record.
C1_ValueNotFound ==
    \A i \in DOMAIN turns :
        NoneTwice(turns[i]) =>
            /\ turns[i].pc = "failed"
            /\ turns[i].error = "Could not find relevant value"
            /\ Invocations(turns[i], "updateValues") = 1
            /\ Invocations(turns[i], "relevantValue") = 2
            /\ Invocations(turns[i], "response") = 0
            /\ \A k \in WrittenBy(i) : traceFile[k].eventType # "response"

C1_Witness ==
    \E i \in DOMAIN turns :
        /\ NoneTwice(turns[i])
        /\ turns[i].error = "Could not find relevant value"
        /\ WrittenBy(i) # {}

----------------------------------------------------------------------------
(* C2 *)

NoneThenFound(t) ==
    LET a == Answers(t, "relevantValue")
    IN  Len(a) = 2 /\ StartsWithNone(a[1]) /\ ~StartsWithNone(a[2])

\* the value-set part of C2: the second lookup is made against the last block of
\* the updateValues completion, and a turn that returns returns that block
SecondLookupOnLastBlock(t) ==
    \E v \in Suffixes(Answers(t, "updateValues")[1]) :
        /\ IsLastBlockOf(v, Answers(t, "updateValues")[1])
        /\ Requests(t, "relevantValue")[2] =
              getRelevantValue(v, t.dialogue, Answers(t, "situation")[1])
        /\ t.pc = "returned" => t.result.values = v

\* C2 as claimed: when the first relevantValue completion starts with None and the
\* second does not, the value-set the turn returns is exactly the last
\* '\n---\n'-delimited block of the updateValues completion, the second lookup is
\* made against that value-set, and exactly one upgrade trace record is written
\* for the turn.
C2_Original ==
    \A i \in DOMAIN turns :
        NoneThenFound(turns[i]) =>
            /\ SecondLookupOnLastBlock(turns[i])
            /\ Cardinality(Written(i, "upgrade", "wise")) = 1
            /\ \A k \in WrittenBy(i) :
                  traceFile[k].eventType = "upgrade" => traceFile[k].runType = "wise"

\* C2 amended: as claimed, with exactly one upgrade trace record written when a
\* trace destination is set, and none when it is not.
C2_UpdatePath ==
    \A i \in DOMAIN turns :
        NoneThenFound(turns[i]) =>
            /\ SecondLookupOnLastBlock(turns[i])
            /\ Cardinality(Written(i, "upgrade", "wise")) =
                  (IF flags.traceFile # <<>> THEN 1 ELSE 0)
            /\ \A k \in WrittenBy(i) :
                  traceFile[k].eventType = "upgrade" => traceFile[k].runType = "wise"

C2_Witness ==
    \E i \in DOMAIN turns :
        /\ NoneThenFound(turns[i])
        /\ turns[i].pc = "returned"
        /\ Len(Split(Answers(turns[i], "updateValues")[1], UpdateDelimiter)) > 1
        /\ Cardinality(Written(i, "upgrade", "wise")) = 1

----------------------------------------------------------------------------
(* C3 *)

FoundAtOnce(t) ==
    LET a == Answers(t, "relevantValue")
    IN  Len(a) >= 1 /\ ~StartsWithNone(a[1])

\* C3: when the first relevantValue completion does not start with None,
\* updateValues is never invoked, no upgrade trace is written, the response
\* template is invoked with exactly that value, and a turn that returns returns
\* the response completion unchanged and the value-set it was passed.
C3_DirectPath ==
    \A i \in DOMAIN turns :
        FoundAtOnce(turns[i]) =>
            /\ Invocations(turns[i], "updateValues") = 0
            /\ Invocations(turns[i], "relevantValue") = 1
            /\ \A k \in WrittenBy(i) : traceFile[k].eventType # "upgrade"
            /\ Requests(turns[i], "response") =
                  <<getResponse(Answers(turns[i], "relevantValue")[1], turns[i].dialogue)>>
            /\ turns[i].pc = "returned" =>
                  /\ turns[i].result.response = Answers(turns[i], "response")[1]
                  /\ turns[i].result.relevantValue = Answers(turns[i], "relevantValue")[1]
                  /\ turns[i].result.values = turns[i].valuesIn

C3_Witness ==
    \E i \in DOMAIN turns :
        /\ FoundAtOnce(turns[i])
        /\ turns[i].pc = "returned"
        /\ turns[i].result.response = <<"Q">>

----------------------------------------------------------------------------
(* C4 *)

\* the baseResponse or cleverResponse call of t failed after the response step
ComparativeCallFailed(t) ==
    /\ flags.comparative
    /\ t.error = "APIError"
    /\ Last(t.sent).name \in {"baseResponse", "cleverResponse"}

\* C4 as claimed: with comparative mode on, when the baseResponse or
\* cleverResponse call fails after the situation, value and response steps
\* succeeded, wiseResponse still returns the primary response, value, situation
\* and value-set, and (no upgrade, baseline call failing, tracing on) the trace
\* holds exactly the situation and response/wise records of the turn.
C4_ComparativeFailureIsolated ==
    \A i \in DOMAIN turns :
        ComparativeCallFailed(turns[i]) =>
            /\ turns[i].pc = "returned"
            /\ turns[i].result.response = Answers(turns[i], "response")[1]
            /\ turns[i].result.situation = Answers(turns[i], "situation")[1]
            /\ ( /\ Invocations(turns[i], "updateValues") = 0
                 /\ Last(turns[i].sent).name = "baseResponse"
                 /\ flags.traceFile # <<>> )
               => /\ Cardinality(WrittenBy(i)) = 2
                  /\ Cardinality(Written(i, "situation", "wise")) = 1
                  /\ Cardinality(Written(i, "response", "wise")) = 1

----------------------------------------------------------------------------
(* C5 *)

MandatoryCallFailed(t) ==
    /\ t.error = "APIError"
    /\ Last(t.sent).name \in MandatoryCalls

\* C5: when an LLM invocation on the mandatory path of a turn fails, the turn is
\* aborted there: from then on it issues no LLM call and writes no trace record;
\* and the trace file only grows, each earlier content a prefix of the later.
C5_AbortKeepsTrace ==
    [][ /\ IsPrefix(traceFile, traceFile')
        /\ \A i \in DOMAIN turns :
              MandatoryCallFailed(turns[i]) =>
                  /\ turns[i].pc = "failed"
                  /\ turns[i].req = NoRequest
                  /\ turns'[i] = turns[i]
                  /\ \A k \in DOMAIN traceFile' :
                        traceFile'[k].turn = i => k \in DOMAIN traceFile ]_vars

C5_Witness ==
    \E i \in DOMAIN turns :
        /\ MandatoryCallFailed(turns[i])
        /\ Last(turns[i].sent).name = "response"
        /\ Cardinality(WrittenBy(i)) >= 2
        /\ i > 1

----------------------------------------------------------------------------
(* C9 *)

HasContent(s) == \E k \in 1..Len(s) : s[k] \notin Whitespace

\* C9 as claimed: a turn that takes the update path and returns, returns a
\* value-set that is not empty of content, whatever the updateValues and the
\* second relevantValue completions are.
C9_ValueSetNeverEmpty ==
    \A i \in DOMAIN turns :
        (turns[i].pc = "returned" /\ Invocations(turns[i], "updateValues") >= 1) =>
            HasContent(turns[i].result.values)

----------------------------------------------------------------------------
(* C6, C7, C8: the interactive session *)

InFlight == {i \in DOMAIN turns : Pending(turns[i])}

\* C6 as claimed: in interactive mode at most one turn is in flight at any time, so
\* no two LLM calls of the session are outstanding together.
C6_OneTurnInFlight == command = "interact" => Cardinality(InFlight) <= 1

\* C7 as claimed: the value-set passed to the turn of the first line is the
\* startingValues body, and the value-set passed to the turn of line n+1 is the
\* value-set the turn of line n returned.
C7_ValuesThreaded ==
    command = "interact" =>
        \A n \in DOMAIN turns :
            /\ n = 1 => turns[n].valuesIn = StartingValues
            /\ (n > 1 /\ turns[n - 1].pc = "returned") =>
                  turns[n].valuesIn = turns[n - 1].result.values

\* C8 as claimed: the dialogue passed to wiseResponse for the n-th line holds the
\* human line and the bot response of every turn completed before it, and the
\* new line.
C8_DialogueAccumulated ==
    command = "interact" =>
        \A n \in DOMAIN turns :
            /\ Contains(turns[n].dialogue, turns[n].input)
            /\ \A j \in turns[n].earlier :
                  /\ Contains(turns[n].dialogue, turns[j].input)
                  /\ Contains(turns[n].dialogue, turns[j].result.response)

----------------------------------------------------------------------------
(* C10 *)

WordCharacters == {"N", "o", "n", "e", "t"}

\* the text begins with the exact word None: None, then no further word character
BeginsWithWordNone(s) ==
    StartsWithNone(s) /\ (Len(s) > 4 => s[5] \notin WordCharacters)

\* C10 as claimed: value resolution treats a candidate as absent exactly when it
\* begins with the exact word None, and as present otherwise, also when its first
\* word merely has None as a prefix.
C10_Original ==
    verdict # "none" => (verdict = "absent" <=> BeginsWithWordNone(candidate))

\* C10 amended: value resolution treats a candidate as absent exactly when it
\* starts with the four characters None, whatever follows them, and as present
\* otherwise.
C10_NonePrefix ==
    verdict # "none" => (verdict = "absent" <=> StartsWithNone(candidate))

C10_Witness ==
    /\ verdict = "absent"
    /\ candidate = <<"N", "o", "n", "e", "t">>

----------------------------------------------------------------------------
(* C11 *)

\* the prompts file on disk holds a marker line `# name`
SectionPresent(name) ==
    \E p \in 1..Len(disk.promptsFile) :
        /\ p = 1 \/ disk.promptsFile[p - 1] = "\n"
        /\ At(disk.promptsFile, p) = "#"
        /\ At(disk.promptsFile, p + 1) = " "
        /\ At(disk.promptsFile, p + 2) = name
        /\ At(disk.promptsFile, p + 3) \in {"", "\n"}

\* C11 as claimed: when a mandatory template section (situation, relevantValue,
\* updateValues, response) is absent from the prompts file, requesting that
\* prompt aborts the run before any LLM invocation is issued for it: no turn
\* ever issues an LLM request for a mandatory prompt whose section is absent.
C11_MissingSectionAborts ==
    \A i \in DOMAIN turns :
        \A k \in 1..Len(turns[i].sent) :
            turns[i].sent[k].name \in MandatoryCalls => SectionPresent(turns[i].sent[k].name)

----------------------------------------------------------------------------
(* C12 *)

\* the name of the evaluation template of an event type
EvalTemplate(event) == "eval-" \o event

\* C12 as claimed: with a trace destination set and evaluation enabled, a trace
\* call whose `eval-<eventType>` section is present never fails because of the
\* event's parameters, hands the evaluation template a defined `considerations`
\* text, and appends a record whose score is the completion of that evaluation.
C12_EvaluationScored ==
    (flags.traceFile # <<>> /\ flags.runEvals) =>
        /\ \A i \in DOMAIN turns : turns[i].error # "TypeError"
        /\ \A i \in DOMAIN turns :
              \A k \in 1..Len(turns[i].sent) :
                  turns[i].sent[k].name \in EvalSections =>
                      \A j \in 1..Len(turns[i].sent[k].userPrompt) :
                          turns[i].sent[k].userPrompt[j] # "undefined"
        /\ \A r \in DOMAIN traceFile :
              SectionPresent(EvalTemplate(traceFile[r].eventType)) =>
                  \E k \in 1..Len(turns[traceFile[r].turn].received) :
                      /\ turns[traceFile[r].turn].sent[k].name =
                            EvalTemplate(traceFile[r].eventType)
                      /\ traceFile[r].score = turns[traceFile[r].turn].received[k]

----------------------------------------------------------------------------
(* C13 *)

\* the LLM calls whose completion is traced as an event of the type
CallsOf(event) ==
    CASE event = "situation" -> {"situation"}
      [] event = "upgrade" -> {"updateValues"}
      [] OTHER -> {"response", "baseResponse", "cleverResponse"}

\* the completions invocation t has received from the calls of the event type
Completed(t, event) ==
    Cardinality({k \in 1..Len(t.received) : t.sent[k].name \in CallsOf(event)})

EventTypes == {"situation", "upgrade", "response"}

\* C13: with a trace destination set and evaluation enabled, for an event type
\* whose `eval-<eventType>` section is absent, trace makes no LLM invocation
\* and raises no error, and every completion of that type has exactly one
\* record, whose score is unset.
C13_EvaluationSkipped ==
    (flags.traceFile # <<>> /\ flags.runEvals) =>
        \A event \in EventTypes :
            ~SectionPresent(EvalTemplate(event)) =>
                \A i \in DOMAIN turns :
                    /\ Invocations(turns[i], EvalTemplate(event)) = 0
                    /\ turns[i].error = "TypeError" =>
                           Last(turns[i].sent).name \notin CallsOf(event)
                    /\ Cardinality({r \in WrittenBy(i) : traceFile[r].eventType = event})
                          = Completed(turns[i], event)
                    /\ \A r \in WrittenBy(i) :
                           traceFile[r].eventType = event => traceFile[r].score = Undefined

\* a turn took the update path and returned with evaluation enabled, tracing on
\* and no evaluation section in the prompts file: three records without a score
C13_Witness ==
    /\ flags.traceFile # <<>> /\ flags.runEvals
    /\ \A event \in EventTypes : ~SectionPresent(EvalTemplate(event))
    /\ \E i \in DOMAIN turns :
          /\ turns[i].pc = "returned"
          /\ Cardinality(WrittenBy(i)) >= 3
          /\ \A r \in WrittenBy(i) : traceFile[r].score = Undefined

----------------------------------------------------------------------------
(* C14 *)

\* the templates wiseResponse itself invokes
TurnCalls == MandatoryCalls \cup {"baseResponse", "cleverResponse"}

\* the names of the wiseResponse calls invocation t has issued, in order
RECURSIVE TurnCallsFrom(_, _)
TurnCallsFrom(t, k) ==
    IF k > Len(t.sent) THEN <<>>
    ELSE (IF t.sent[k].name \in TurnCalls THEN <<t.sent[k].name>> ELSE <<>>)
         \o TurnCallsFrom(t, k + 1)

\* the completions of the wiseResponse calls of invocation t, in order
RECURSIVE TurnAnswersFrom(_, _)
TurnAnswersFrom(t, k) ==
    IF k > Len(t.received) THEN <<>>
    ELSE (IF t.sent[k].name \in TurnCalls THEN <<t.received[k]>> ELSE <<>>)
         \o TurnAnswersFrom(t, k + 1)

\* the first value lookup reported no value
UpdateTaken(a) == Len(a) >= 2 /\ StartsWithNone(a[2])

\* the position, among the completions, of the value lookup that decides
Deciding(a) == IF UpdateTaken(a) THEN 4 ELSE 2

\* the calls a turn makes when its calls complete with a, tracing off
Script(a, comparative) ==
    (IF UpdateTaken(a)
     THEN <<"situation", "relevantValue", "updateValues", "relevantValue">>
     ELSE <<"situation", "relevantValue">>)
    \o (IF Len(a) >= Deciding(a) /\ ~StartsWithNone(a[Deciding(a)])
        THEN <<"response">>
             \o (IF comparative THEN <<"baseResponse", "cleverResponse">> ELSE <<>>)
        ELSE <<>>)

\* what a turn returns when its calls complete with a
ReturnsAsScripted(t, a) ==
    /\ t.result.situation = a[1]
    /\ t.result.relevantValue = a[Deciding(a)]
    /\ t.result.response = a[Deciding(a) + 1]
    /\ IF UpdateTaken(a) THEN IsLastBlockOf(t.result.values, a[3])
                          ELSE t.result.values = t.valuesIn

\* C14 as claimed: with no trace destination nothing is appended and no
\* evaluation call is issued, and tracing makes no difference to a turn: with
\* tracing on or off its calls are the ones scripted by their completions, it
\* returns the scripted values, and it fails only where a call fails or no
\* value is found.
C14_TracingTransparent ==
    /\ flags.traceFile = <<>> =>
          /\ traceFile = <<>>
          /\ \A i \in DOMAIN turns :
                \A k \in 1..Len(turns[i].sent) : turns[i].sent[k].name \notin EvalSections
    /\ \A i \in DOMAIN turns :
          /\ IsPrefix(TurnCallsFrom(turns[i], 1),
                      Script(TurnAnswersFrom(turns[i], 1), flags.comparative))
          /\ turns[i].pc = "returned" =>
                /\ TurnCallsFrom(turns[i], 1)
                      = Script(TurnAnswersFrom(turns[i], 1), flags.comparative)
                /\ ReturnsAsScripted(turns[i], TurnAnswersFrom(turns[i], 1))
          /\ turns[i].pc = "failed" =>
                turns[i].error \in {"APIError", "Could not find relevant value"}

----------------------------------------------------------------------------
(* C15 *)

Failed == {i \in DOMAIN turns : turns[i].pc = "failed"}

\* while a turn has failed it is the last turn started, the run has ended,
\* and no later record has a trace record
NothingAfterFailure ==
    \A k \in Failed :
        /\ k = Len(turns)
        /\ proc = "crashed"
        /\ \A r \in DOMAIN traceFile : traceFile[r].turn <= k

\* once a turn has failed, no step starts a turn, issues an LLM call or touches
\* the trace file; and no step ever removes or rewrites a trace record
FrozenAfterFailure ==
    /\ Failed # {} => turns' = turns /\ traceFile' = traceFile
    /\ IsPrefix(traceFile, traceFile')

\* C15: in batch mode, when the turn for record k fails, no turn is started,
\* no LLM call is issued and no trace record is written for any record after
\* k, and the trace records written before the failure remain.
C15_FailFast == [](NothingAfterFailure) /\ [][FrozenAfterFailure]_vars

\* the turn of the first of two records failed after it wrote a trace record;
\* the second record is still unread
C15_Witness ==
    /\ Len(turns) = 1
    /\ turns[1].pc = "failed"
    /\ Len(dialogues) = 2
    /\ WrittenBy(1) # {}

----------------------------------------------------------------------------
(* C16 *)

\* the positions of the dialogues file at which a line `---` starts
SeparatorLines(text) ==
    {p \in 1..Len(text) :
        /\ p = 1 \/ text[p - 1] = "\n"
        /\ At(text, p) = "-" /\ At(text, p + 1) = "-" /\ At(text, p + 2) = "-"
        /\ \/ At(text, p + 3) \in {"", "\n"}
           \/ At(text, p + 3) = "\r" /\ At(text, p + 4) = "\n"}

\* where the line after the `---` line at p starts
AfterSeparator(text, p) == IF At(text, p + 3) = "\r" THEN p + 5 ELSE p + 4

\* where the line before the `---` line at p ends, its terminator left out
BeforeSeparator(text, p) == IF At(text, p - 2) = "\r" THEN p - 3 ELSE p - 2

\* every record has at least one line: no `---` line is the first line, the
\* unterminated last line, or the line after another `---` line
RecordsSeparated(text) ==
    \A p \in SeparatorLines(text) :
        /\ p > 1
        /\ At(text, p + 3) # ""
        /\ AfterSeparator(text, p) \notin SeparatorLines(text)

NumRecords(text) == Cardinality(SeparatorLines(text)) + 1

\* the k-th `---` line
NthSeparator(text, k) ==
    CHOOSE p \in SeparatorLines(text) :
        Cardinality({q \in SeparatorLines(text) : q < p}) = k - 1

\* the k-th record: the text between the (k-1)-th and the k-th `---` line
RecordOf(text, k) ==
    SubSeq(text,
           IF k = 1 THEN 1 ELSE AfterSeparator(text, NthSeparator(text, k - 1)),
           IF k = NumRecords(text) THEN Len(text)
           ELSE BeforeSeparator(text, NthSeparator(text, k)))

HoldsHuman(record) ==
    \E p \in 1..Len(record) :
        p + 4 <= Len(record) /\ SubSeq(record, p, p + 4) = <<"H", "U", "M", "A", "N">>

----------------------------------------------------------------------------
(* C17 *)

\* the positions of the prompts file at which a line starts
LineStarts(text) == {1} \cup {p + 1 : p \in {q \in 1..Len(text) : text[q] = "\n"}}

\* the position of the line feed that ends the line at p, or one past the end
LineFeedAfter(text, p) ==
    CHOOSE q \in p..(Len(text) + 1) :
        /\ At(text, q) \in {"", "\n"}
        /\ \A j \in p..(q - 1) : text[j] # "\n"

\* the line that starts at p, its terminator (line feed, or carriage return
\* and line feed) left out
LineAt(text, p) ==
    LET q == LineFeedAfter(text, p)
    IN  SubSeq(text, p,
               IF q <= Len(text) /\ q > p /\ text[q - 1] = "\r" THEN q - 2 ELSE q - 1)

\* the line at p is a marker line `# <name>`
MarkerAt(text, p) ==
    /\ p \in LineStarts(text)
    /\ At(text, p) = "#" /\ At(text, p + 1) = " "
    /\ At(text, p + 2) \notin {"", "\n", "\r"}

\* the name on the marker line at p
NameAt(text, p) ==
    LET e == CHOOSE e \in (p + 2)..Len(text) :
                 /\ At(text, e + 1) \in {"", "\n", "\r"}
                 /\ \A j \in (p + 2)..e : text[j] \notin {"\n", "\r"}
    IN  Concat(SubSeq(text, p + 2, e))

\* the lines of the file from position p on up to the next marker line or the
\* end of the file, each followed by a line feed
RECURSIVE LinesUpToMarker(_, _)
LinesUpToMarker(text, p) ==
    IF p \notin LineStarts(text) \/ MarkerAt(text, p) THEN <<>>
    ELSE LineAt(text, p) \o <<"\n">> \o LinesUpToMarker(text, LineFeedAfter(text, p) + 1)

\* what the file says of the section `name`: undefined when no marker line
\* names it, else the lines after the last marker line that does
SectionOf(text, name) ==
    LET markers == {p \in 1..Len(text) : MarkerAt(text, p) /\ NameAt(text, p) = name}
    IN  IF markers = {} THEN Undefined
        ELSE LinesUpToMarker(text,
                 LineFeedAfter(text, CHOOSE p \in markers : \A q \in markers : q <= p) + 1)

\* C17: for every prompts file, getPrompt of a name gives the lines that follow
\* the `# <name>` marker line up to the next marker line or the end of the
\* file, each with its line feed; lines before the first marker belong to no
\* section; a name on no marker line gives undefined, not a failure; and the
\* file is read at most once however many lookups are made.
C17_PromptStore ==
    /\ disk.reads <= 1
    /\ lookups # <<>> => disk.reads = 1
    /\ \A k \in DOMAIN lookups :
          lookups[k].result = SectionOf(disk.promptsFile, lookups[k].name)

\* two lookups against a file whose first line precedes every marker: one of a
\* name the file does not hold, one of a section with one line; one read
C17_Witness ==
    /\ Len(lookups) = 2
    /\ disk.reads = 1
    /\ disk.promptsFile = <<"x", "\n", "#", " ", "a", "\n", "x">>
    /\ \E k \in DOMAIN lookups : lookups[k].result = Undefined
    /\ \E k \in DOMAIN lookups : lookups[k].result = <<"x", "\n">>

----------------------------------------------------------------------------
(* C18 *)

\* the event type, run type and completion of the records invocation id has
\* written, in the order of the trace file
RECURSIVE RecordsFrom(_, _)
RecordsFrom(id, r) ==
    IF r > Len(traceFile) THEN <<>>
    ELSE (IF traceFile[r].turn = id
          THEN << <<traceFile[r].eventType, traceFile[r].runType, traceFile[r].completion>> >>
          ELSE <<>>)
         \o RecordsFrom(id, r + 1)

\* the record that belongs to the k-th completion of a turn whose calls were
\* `calls` and completed with a: none for a relevantValue lookup
RecordFor(calls, a, k) ==
    CASE calls[k] = "situation" -> << <<"situation", "wise", a[k]>> >>
      [] calls[k] = "updateValues" ->
            << <<"upgrade", "wise",
                 CHOOSE v \in Suffixes(a[k]) : IsLastBlockOf(v, a[k])>> >>
      [] calls[k] = "response" -> << <<"response", "wise", a[k]>> >>
      [] calls[k] = "baseResponse" -> << <<"response", "baseline", a[k]>> >>
      [] calls[k] = "cleverResponse" -> << <<"response", "clever", a[k]>> >>
      [] OTHER -> <<>>

\* the records of the first k completions, in order
RECURSIVE RecordsFor(_, _, _)
RecordsFor(calls, a, k) ==
    IF k = 0 THEN <<>> ELSE RecordsFor(calls, a, k - 1) \o RecordFor(calls, a, k)

\* the event and run types of a sequence of records
Kinds(records) == [k \in DOMAIN records |-> <<records[k][1], records[k][2]>>]

\* C18: with tracing on, a turn's records are, in order, those of its completed
\* calls (situation/wise, upgrade/wise for the update, response/wise,
\* response/baseline, response/clever; none for a relevantValue lookup): never
\* a record before its completion, every record in the file once the turn's
\* next call is issued or the turn has returned, and for a returned turn one
\* situation, one upgrade if and only if the update ran, one response, and
\* baseline then clever if and only if comparative mode is on.
C18_TraceOrder ==
    flags.traceFile # <<>> =>
        \A i \in DOMAIN turns :
            LET calls == TurnCallsFrom(turns[i], 1)
                a == TurnAnswersFrom(turns[i], 1)
            IN  /\ IsPrefix(RecordsFrom(i, 1), RecordsFor(calls, a, Len(a)))
                /\ (Len(calls) > Len(a) \/ turns[i].pc = "returned") =>
                       RecordsFrom(i, 1) = RecordsFor(calls, a, Len(a))
                /\ turns[i].pc = "returned" =>
                       Kinds(RecordsFrom(i, 1)) =
                           << <<"situation", "wise">> >>
                           \o (IF Invocations(turns[i], "updateValues") > 0
                               THEN << <<"upgrade", "wise">> >> ELSE <<>>)
                           \o << <<"response", "wise">> >>
                           \o (IF flags.comparative
                               THEN << <<"response", "baseline">>, <<"response", "clever">> >>
                               ELSE <<>>)

\* a turn with the update, comparative mode and scored response records
\* returned with its five records written
C18_Witness ==
    /\ flags.traceFile # <<>> /\ flags.comparative /\ flags.runEvals
    /\ SectionPresent("eval-response")
    /\ \E i \in DOMAIN turns :
          /\ turns[i].pc = "returned"
          /\ Len(RecordsFrom(i, 1)) = 5

----------------------------------------------------------------------------
(* C19 *)

\* the positions, among the requests of t, of the calls of the template
CallsAt(t, name) == {k \in 1..Len(t.sent) : t.sent[k].name = name}

\* C19: what a returned turn returns is fixed by the completions of its
\* situation, relevantValue, updateValues and response calls, whether
\* comparative mode is on or off; and with comparative mode on the turn has
\* made one baseResponse and one cleverResponse call, each on the raw dialogue
\* and after the response call completed, and has received (and, with tracing
\* on, traced) both completions before it returns.
C19_ComparativeIndependent ==
    \A i \in DOMAIN turns :
        turns[i].pc = "returned" =>
            /\ ReturnsAsScripted(turns[i], TurnAnswersFrom(turns[i], 1))
            /\ flags.comparative =>
                  /\ \A name \in ComparativeSections :
                        /\ Cardinality(CallsAt(turns[i], name)) = 1
                        /\ \A k \in CallsAt(turns[i], name) :
                              /\ turns[i].sent[k].userPrompt = turns[i].dialogue
                              /\ \E r \in CallsAt(turns[i], "response") :
                                    r < k /\ r <= Len(turns[i].received)
                              /\ k <= Len(turns[i].received)
                  /\ flags.traceFile # <<>> =>
                        /\ \E r \in Written(i, "response", "baseline") :
                              traceFile[r].completion = Answers(turns[i], "baseResponse")[1]
                        /\ \E r \in Written(i, "response", "clever") :
                              traceFile[r].completion = Answers(turns[i], "cleverResponse")[1]

\* a turn with comparative mode and tracing on returned after the update
C19_Witness ==
    /\ flags.comparative /\ flags.traceFile # <<>>
    /\ \E i \in DOMAIN turns :
          /\ turns[i].pc = "returned"
          /\ Invocations(turns[i], "updateValues") = 1
          /\ Written(i, "response", "clever") # {}

----------------------------------------------------------------------------
(* C20 *)

\* C20: in batch mode the turn of every record is invoked with the value-set
\* of the `startingValues` section of the prompts file (the line `K`),
\* whatever value-set the turns of the records before it returned.
C20_StartingValuesEveryRecord ==
    command = "run" =>
        \A k \in DOMAIN turns :
            turns[k].valuesIn = StartingValues

\* the turn of the first record returned an updated value-set and the turn of
\* the second record has been started
C20_Witness ==
    /\ command = "run"
    /\ Len(turns) = 2
    /\ turns[1].pc = "returned"
    /\ turns[1].result.values # StartingValues

====
